---------------------------- MODULE Spec2Model ----------------------------
(***************************************************************************)
(* A model of the ChessAgents backend: the opening classifier              *)
(* (openings/opening_families.py), the perspective resolver and query      *)
(* engine (app/agent_queries.py), the ingest path                          *)
(* (repositories/sql_model_game_repository.py), the endpoints of           *)
(* app/main.py and GameAnalyzer (scripts/analyze.py).                      *)
(*                                                                         *)
(* Python strings are modelled as sequences of characters, each character  *)
(* a one-element TLA+ string; "u_uml" / "U_uml" stand for the letters      *)
(* u-umlaut, "sup2" for SUPERSCRIPT TWO (U+00B2) and "ar3" for             *)
(* ARABIC-INDIC DIGIT THREE (U+0663).  Python's None, where a string is    *)
(* expected, is the one-element sequence None, which is no string of       *)
(* characters.                                                             *)
(***************************************************************************)
EXTENDS Integers, Sequences, FiniteSets, TLC

VARIABLES
  eco, opening, fam, cpc,     \* the classifier call: its arguments, result, position
  username, g, povr, colr,    \* the resolver call: its arguments and results
  povW, povB, ppc,            \* the two players' perspectives; the call's position
  store,                      \* the committed rows of table gamerow, in id order
  op,                         \* the last ingest or query operation and its result
  calls,                      \* the upsert_games calls that run in parallel
  sessions,                   \* the database sessions of those calls
  lock                        \* the caller holding the database's write lock, or 0

cvars == <<eco, opening, fam, cpc>>
pvars == <<username, g, povr, colr, povW, povB, ppc>>
svars == <<store, op>>
rvars == <<calls, sessions, lock>>
vars == <<cvars, pvars, svars, rvars>>

-----------------------------------------------------------------------------
(* Python values *)

\* None where a str is expected (Optional[str])
None == <<"None">>

\* the exception int() raises, propagated to the caller of the classifier
ValueError == <<"ValueError">>

\* truthiness of an Optional[str]: None and "" are falsy
Truthy(s) == s # None /\ s # <<>>

\* (s or "")
OrEmpty(s) == IF Truthy(s) THEN s ELSE <<>>

UpperLetters ==
  <<"A","B","C","D","E","F","G","H","I","J","K","L","M","N","O","P","Q","R",
    "S","T","U","V","W","X","Y","Z","U_uml">>

LowerLetters ==
  <<"a","b","c","d","e","f","g","h","i","j","k","l","m","n","o","p","q","r",
    "s","t","u","v","w","x","y","z","u_uml">>

\* the case mappings of the letters, as tables
LowerOf ==
  [c \in {UpperLetters[i] : i \in DOMAIN UpperLetters} |->
     LowerLetters[CHOOSE i \in DOMAIN UpperLetters : UpperLetters[i] = c]]

UpperOf ==
  [c \in {LowerLetters[i] : i \in DOMAIN LowerLetters} |->
     UpperLetters[CHOOSE i \in DOMAIN LowerLetters : LowerLetters[i] = c]]

\* str.lower() and str.upper() of one character
LowerChar(c) == IF c \in DOMAIN LowerOf THEN LowerOf[c] ELSE c

UpperChar(c) == IF c \in DOMAIN UpperOf THEN UpperOf[c] ELSE c

\* str.lower() of a string
Lower(s) == [i \in DOMAIN s |-> LowerChar(s[i])]

\* t occurs in s as a contiguous substring
Contains(s, t) ==
  \E k \in 0..(Len(s) - Len(t)) : SubSeq(s, k + 1, k + Len(t)) = t

\* str.isdigit() of one character: true of every Unicode digit
AsciiDigits == <<"0","1","2","3","4","5","6","7","8","9">>

IsDigit(c) == (\E i \in DOMAIN AsciiDigits : AsciiDigits[i] = c) \/ c \in {"sup2", "ar3"}

\* int() accepts the decimal digits (Unicode category Nd) only
IsDecimal(c) == (\E i \in DOMAIN AsciiDigits : AsciiDigits[i] = c) \/ c = "ar3"

DigitValue(c) ==
  IF c = "ar3" THEN 3
  ELSE (CHOOSE i \in DOMAIN AsciiDigits : AsciiDigits[i] = c) - 1

-----------------------------------------------------------------------------
(* openings/opening_families.py *)

FamSicilianDefense == <<"S","i","c","i","l","i","a","n"," ","D","e","f","e","n","s","e">>
FamFrenchDefense == <<"F","r","e","n","c","h"," ","D","e","f","e","n","s","e">>
FamCaroKannDefense == <<"C","a","r","o","-","K","a","n","n"," ","D","e","f","e","n","s","e">>
FamScandinavianDefense == <<"S","c","a","n","d","i","n","a","v","i","a","n"," ","D","e","f","e","n","s","e">>
FamAlekhineDefense == <<"A","l","e","k","h","i","n","e"," ","D","e","f","e","n","s","e">>
FamPircModern == <<"P","i","r","c","/","M","o","d","e","r","n">>
FamRuyLopez == <<"R","u","y"," ","L","o","p","e","z">>
FamItalianGame == <<"I","t","a","l","i","a","n"," ","G","a","m","e">>
FamScotchGame == <<"S","c","o","t","c","h"," ","G","a","m","e">>
FamPhilidorDefense == <<"P","h","i","l","i","d","o","r"," ","D","e","f","e","n","s","e">>
FamPetrovDefense == <<"P","e","t","r","o","v"," ","D","e","f","e","n","s","e">>
FamQueensGambit == <<"Q","u","e","e","n","'","s"," ","G","a","m","b","i","t">>
FamSlavSemiSlav == <<"S","l","a","v","/","S","e","m","i","-","S","l","a","v">>
FamCatalan == <<"C","a","t","a","l","a","n">>
FamNimzoIndian == <<"N","i","m","z","o","-","I","n","d","i","a","n">>
FamQueensIndian == <<"Q","u","e","e","n","'","s"," ","I","n","d","i","a","n">>
FamKingsIndian == <<"K","i","n","g","'","s"," ","I","n","d","i","a","n">>
FamGrunfeld == <<"G","r","u_uml","n","f","e","l","d">>
FamBenoniBenko == <<"B","e","n","o","n","i","/","B","e","n","k","o">>
FamDutchDefense == <<"D","u","t","c","h"," ","D","e","f","e","n","s","e">>
FamEnglishOpening == <<"E","n","g","l","i","s","h"," ","O","p","e","n","i","n","g">>
FamLondonTrompowskyJobava == <<"L","o","n","d","o","n","/","T","r","o","m","p","o","w","s","k","y","/","J","o","b","a","v","a">>
FamViennaGame == <<"V","i","e","n","n","a"," ","G","a","m","e">>
FamKingsGambit == <<"K","i","n","g","'","s"," ","G","a","m","b","i","t">>
FamOtherIrregular == <<"O","t","h","e","r","/","I","r","r","e","g","u","l","a","r">>

ECO_RANGES ==
  << [fam |-> FamSicilianDefense, start |-> <<"B","2","0">>, end |-> <<"B","9","9">>],
     [fam |-> FamFrenchDefense, start |-> <<"C","0","0">>, end |-> <<"C","1","9">>],
     [fam |-> FamCaroKannDefense, start |-> <<"B","1","0">>, end |-> <<"B","1","9">>],
     [fam |-> FamScandinavianDefense, start |-> <<"B","0","1">>, end |-> <<"B","0","1">>],
     [fam |-> FamAlekhineDefense, start |-> <<"B","0","2">>, end |-> <<"B","0","5">>],
     [fam |-> FamPircModern, start |-> <<"B","0","6">>, end |-> <<"B","0","9">>],
     [fam |-> FamRuyLopez, start |-> <<"C","6","0">>, end |-> <<"C","9","9">>],
     [fam |-> FamItalianGame, start |-> <<"C","5","0">>, end |-> <<"C","5","9">>],
     [fam |-> FamScotchGame, start |-> <<"C","4","4">>, end |-> <<"C","4","5">>],
     [fam |-> FamPhilidorDefense, start |-> <<"C","4","1">>, end |-> <<"C","4","1">>],
     [fam |-> FamPetrovDefense, start |-> <<"C","4","0">>, end |-> <<"C","4","2">>],
     [fam |-> FamQueensGambit, start |-> <<"D","0","6">>, end |-> <<"D","6","9">>],
     [fam |-> FamSlavSemiSlav, start |-> <<"D","1","0">>, end |-> <<"D","1","9">>],
     [fam |-> FamCatalan, start |-> <<"E","0","1">>, end |-> <<"E","0","9">>],
     [fam |-> FamNimzoIndian, start |-> <<"E","2","0">>, end |-> <<"E","5","9">>],
     [fam |-> FamQueensIndian, start |-> <<"E","1","2">>, end |-> <<"E","1","9">>],
     [fam |-> FamKingsIndian, start |-> <<"E","6","0">>, end |-> <<"E","9","9">>],
     [fam |-> FamGrunfeld, start |-> <<"D","7","0">>, end |-> <<"D","9","9">>],
     [fam |-> FamBenoniBenko, start |-> <<"A","5","6">>, end |-> <<"A","7","9">>],
     [fam |-> FamDutchDefense, start |-> <<"A","8","0">>, end |-> <<"A","9","9">>],
     [fam |-> FamEnglishOpening, start |-> <<"A","1","0">>, end |-> <<"A","3","9">>],
     [fam |-> FamLondonTrompowskyJobava, start |-> <<"A","4","5">>, end |-> <<"A","4","6">>],
     [fam |-> FamViennaGame, start |-> <<"C","2","5">>, end |-> <<"C","2","9">>],
     [fam |-> FamKingsGambit, start |-> <<"C","3","0">>, end |-> <<"C","3","9">>],
     [fam |-> FamOtherIrregular, start |-> <<"A","0","0">>, end |-> <<"A","0","9">>] >>

name_rules ==
  << [rx |-> {<<"s","i","c","i","l","i","a","n">>}, fam |-> FamSicilianDefense],
     [rx |-> {<<"f","r","e","n","c","h">>}, fam |-> FamFrenchDefense],
     [rx |-> {<<"c","a","r","o","-","k","a","n","n">>, <<"c","a","r","o"," ","k","a","n","n">>, <<"c","a","r","o","k","a","n","n">>}, fam |-> FamCaroKannDefense],
     [rx |-> {<<"i","t","a","l","i","a","n">>}, fam |-> FamItalianGame],
     [rx |-> {<<"r","u","y">>}, fam |-> FamRuyLopez],
     [rx |-> {<<"s","c","o","t","c","h">>}, fam |-> FamScotchGame],
     [rx |-> {<<"p","e","t","r","o","v">>, <<"r","u","s","s","i","a","n">>}, fam |-> FamPetrovDefense],
     [rx |-> {<<"p","h","i","l","i","d","o","r">>}, fam |-> FamPhilidorDefense],
     [rx |-> {<<"q","u","e","e","n","'","s"," ","g","a","m","b","i","t">>, <<"q","u","e","e","n","s"," ","g","a","m","b","i","t">>}, fam |-> FamQueensGambit],
     [rx |-> {<<"s","l","a","v">>}, fam |-> FamSlavSemiSlav],
     [rx |-> {<<"c","a","t","a","l","a","n">>}, fam |-> FamCatalan],
     [rx |-> {<<"n","i","m","z","o">>}, fam |-> FamNimzoIndian],
     [rx |-> {<<"q","u","e","e","n","'","s"," ","i","n","d","i","a","n">>, <<"q","u","e","e","n","s"," ","i","n","d","i","a","n">>}, fam |-> FamQueensIndian],
     [rx |-> {<<"k","i","n","g","'","s"," ","i","n","d","i","a","n">>, <<"k","i","n","g","s"," ","i","n","d","i","a","n">>}, fam |-> FamKingsIndian],
     [rx |-> {<<"g","r","u","n","f","e","l","d">>, <<"g","r","u_uml","n","f","e","l","d">>}, fam |-> FamGrunfeld],
     [rx |-> {<<"b","e","n","o","n","i">>, <<"b","e","n","k","o">>}, fam |-> FamBenoniBenko],
     [rx |-> {<<"d","u","t","c","h">>}, fam |-> FamDutchDefense],
     [rx |-> {<<"e","n","g","l","i","s","h">>}, fam |-> FamEnglishOpening],
     [rx |-> {<<"v","i","e","n","n","a">>}, fam |-> FamViennaGame],
     [rx |-> {<<"k","i","n","g","'","s"," ","g","a","m","b","i","t">>, <<"k","i","n","g","s"," ","g","a","m","b","i","t">>}, fam |-> FamKingsGambit],
     [rx |-> {<<"p","i","r","c">>, <<"m","o","d","e","r","n">>}, fam |-> FamPircModern],
     [rx |-> {<<"l","o","n","d","o","n">>, <<"t","r","o","m","p">>, <<"j","o","b","a","v","a">>}, fam |-> FamLondonTrompowskyJobava] >>

ABCDE == <<"A","B","C","D","E">>

\* Optional[int], or the ValueError int() raised
NoneInt == [kind |-> "None", val |-> 0]
RaisedInt == [kind |-> "ValueError", val |-> 0]
SomeInt(n) == [kind |-> "int", val |-> n]

eco_to_num(e) ==
  IF ~Truthy(e) \/ Len(e) # 3 THEN NoneInt
  ELSE LET letter == UpperChar(e[1])
           d1 == e[2]
           d2 == e[3]
       IN IF (~\E i \in DOMAIN ABCDE : ABCDE[i] = letter) \/ ~IsDigit(d1) \/ ~IsDigit(d2)
            THEN NoneInt
          ELSE IF ~IsDecimal(d1) \/ ~IsDecimal(d2) THEN RaisedInt
          ELSE LET base == CHOOSE i \in DOMAIN ABCDE : ABCDE[i] = letter
               IN SomeInt(base * 1000 + (10 * DigitValue(d1) + DigitValue(d2)))

\* line 80: the numeric bounds (ns, ne) of each row of the table
RangeBounds ==
  [i \in DOMAIN ECO_RANGES |->
     [ns |-> eco_to_num(ECO_RANGES[i].start), ne |-> eco_to_num(ECO_RANGES[i].end)]]

\* the condition of line 81 for the i-th row
RangeMatches(i, n) ==
  LET ns == RangeBounds[i].ns
      ne == RangeBounds[i].ne
  IN ns.kind = "int" /\ ne.kind = "int" /\ ns.val <= n /\ n <= ne.val

\* the loop of lines 79-82 from the i-th row on: the first row that matches,
\* or 0 when the loop falls through
RECURSIVE FirstRange(_, _)
FirstRange(i, n) ==
  IF i > Len(ECO_RANGES) THEN 0
  ELSE IF RangeMatches(i, n) THEN i
  ELSE FirstRange(i + 1, n)

\* rx.search(opening) of a pattern compiled with re.I; lo is the opening
\* name in lower case
Search(rx, lo) == \E alt \in rx : Contains(lo, alt)

\* the loop of lines 84-86 from the i-th rule on
RECURSIVE FirstRule(_, _)
FirstRule(i, lo) ==
  IF i > Len(name_rules) THEN 0
  ELSE IF Search(name_rules[i].rx, lo) THEN i
  ELSE FirstRule(i + 1, lo)

\* lines 83-87: the first rule that matches, else the catch-all
NameFamily(o) ==
  LET rule == IF Truthy(o) THEN FirstRule(1, Lower(o)) ELSE 0
  IN IF rule # 0 THEN name_rules[rule].fam ELSE FamOtherIrregular

family_from_eco_or_name(e, o) ==
  LET n == IF Truthy(e) THEN eco_to_num(e) ELSE NoneInt
      row == IF n.kind = "int" THEN FirstRange(1, n.val) ELSE 0
  IN IF n.kind = "ValueError" THEN ValueError
     ELSE IF row # 0 THEN ECO_RANGES[row].fam
     ELSE NameFamily(o)

\* the fixed family set: every label of the two tables, and the catch-all
Families ==
  {ECO_RANGES[i].fam : i \in DOMAIN ECO_RANGES}
    \cup {name_rules[i].fam : i \in DOMAIN name_rules} \cup {FamOtherIrregular}

-----------------------------------------------------------------------------
(* app/agent_queries.py: the perspective resolver *)

\* None where a Literal (a colour, a result) or GameRow.result is expected
NoneLit == "None"

\* truthiness of an Optional value held as a TLA+ string
TruthyLit(x) == x # NoneLit /\ x # ""

\* AgentQueryService.__init__: self.username
self_username(u) == Lower(u)

\* _pov with line 40 testing is_w where the code tests is_b
pov_white_on_black_win(su, row) ==
  IF ~TruthyLit(row.result) THEN NoneLit
  ELSE LET is_w == Lower(OrEmpty(row.white)) = su
           is_b == Lower(OrEmpty(row.black)) = su
       IN IF ~(is_w \/ is_b) THEN NoneLit
          ELSE IF row.result = "1/2-1/2" THEN "draw"
          ELSE IF row.result = "1-0" THEN (IF is_w THEN "win" ELSE "loss")
          ELSE IF row.result = "0-1" THEN (IF is_w THEN "win" ELSE "loss")
          ELSE NoneLit

\* _pov of a service whose self.username is su
pov(su, row) ==
  IF ~TruthyLit(row.result) THEN NoneLit
  ELSE LET is_w == Lower(OrEmpty(row.white)) = su
           is_b == Lower(OrEmpty(row.black)) = su
       IN IF ~(is_w \/ is_b) THEN NoneLit
          ELSE IF row.result = "1/2-1/2" THEN "draw"
          ELSE IF row.result = "1-0" THEN (IF is_w THEN "win" ELSE "loss")
          ELSE IF row.result = "0-1" THEN (IF is_b THEN "win" ELSE "loss")
          ELSE NoneLit

\* _my_color of a service whose self.username is su
my_color(su, row) ==
  IF Lower(OrEmpty(row.white)) = su THEN "white"
  ELSE IF Lower(OrEmpty(row.black)) = su THEN "black"
  ELSE NoneLit

-----------------------------------------------------------------------------
(* app/agent_queries.py: the query engine *)

\* SQLite's lower() and LIKE fold the ASCII letters only
SqlLower(s) == [i \in DOMAIN s |-> IF s[i] = "U_uml" THEN s[i] ELSE LowerChar(s[i])]

\* SQL LIKE of s[i..] against pat[j..]: "%" matches any run of characters,
\* "_" any one character
RECURSIVE LikeFrom(_, _, _, _)
LikeFrom(s, i, pat, j) ==
  IF j > Len(pat) THEN i > Len(s)
  ELSE IF pat[j] = "%"
    THEN LikeFrom(s, i, pat, j + 1) \/ (i <= Len(s) /\ LikeFrom(s, i + 1, pat, j))
  ELSE /\ i <= Len(s)
       /\ (pat[j] = "_" \/ pat[j] = s[i])
       /\ LikeFrom(s, i + 1, pat, j + 1)

Like(s, pat) == LikeFrom(s, 1, pat, 1)

\* column.ilike(pattern) inside WHERE: lower(column) LIKE lower(pattern);
\* on a NULL column the comparison is NULL and the row is not selected
ilike(column, pat) == column # None /\ Like(SqlLower(column), SqlLower(pat))

\* the WHERE clause of lines 85-93
Selected(row, su, a) ==
  /\ \/ ilike(row.white, <<"%">> \o su \o <<"%">>)
     \/ ilike(row.black, <<"%">> \o su \o <<"%">>)
  /\ Truthy(a.opening_like) => ilike(row.opening, <<"%">> \o a.opening_like \o <<"%">>)
  /\ Truthy(a.eco_prefix) => ilike(row.eco, a.eco_prefix \o <<"%">>)

Reverse(seq) == [i \in DOMAIN seq |-> seq[Len(seq) + 1 - i]]

\* the selected rows in ascending id order whatever order_dir says
QueryRows_ascending(rows, su, a) ==
  SelectSeq(rows, LAMBDA row : Selected(row, su, a))

\* rows = s.exec(stmt).all(): the selected rows ordered by id (lines 95-98)
QueryRows(rows, su, a) ==
  LET sel == SelectSeq(rows, LAMBDA row : Selected(row, su, a))
  IN IF a.order_dir = "asc" THEN sel ELSE Reverse(sel)

\* _row_to_dict; time_control, ply_count and end_time_utc, which the code
\* copies from the row unchanged, are left out
row_to_dict(su, row) ==
  [ id |-> row.id,
    date |-> NoneLit,
    white |-> row.white,
    black |-> row.black,
    my_color |-> my_color(su, row),
    pov_result |-> pov(su, row),
    eco |-> row.eco,
    opening |-> row.opening,
    family |-> family_from_eco_or_name(row.eco, row.opening) ]

\* the tests of lines 106-112 and of lines 114-117 on one row
PassesColorResult(su, row, a) ==
  /\ TruthyLit(a.color) => my_color(su, row) = a.color
  /\ TruthyLit(a.result) => pov(su, row) = a.result

\* a family test that passes every row
passes_any_family(row, a) == TRUE

PassesFamily(row, a) ==
  Truthy(a.family) =>
    Lower(family_from_eco_or_name(row.eco, row.opening)) = Lower(a.family)

\* out[offset : offset + limit] for offset, limit >= 0
PySlice(seq, offset, limit) ==
  LET lo == IF offset < Len(seq) THEN offset ELSE Len(seq)
      hi == IF offset + limit < Len(seq) THEN offset + limit ELSE Len(seq)
  IN SubSeq(seq, lo + 1, hi)

\* the rows the colour and result tests of lines 106-112 keep
KeptRows(rows, su, a) == SelectSeq(rows, LAMBDA row : PassesColorResult(su, row, a))

\* the classifier is called on every kept row (line 115 or line 51), and the
\* ValueError it raises leaves games
Raises(kept) ==
  \E i \in DOMAIN kept :
    family_from_eco_or_name(kept[i].eco, kept[i].opening) = ValueError

\* the list out of lines 104-119
FilteredViews(kept, su, a) ==
  LET passed == SelectSeq(kept, LAMBDA row : PassesFamily(row, a))
  IN [i \in DOMAIN passed |-> row_to_dict(su, passed[i])]

\* games with the slice taken from the selected rows, before the loop of
\* lines 104-119 drops any
games_paginate_first(rows, uname, a) ==
  LET su == self_username(uname)
      page == PySlice(QueryRows(rows, su, a), a.offset, a.limit)
      kept == KeptRows(page, su, a)
  IN IF Raises(kept) THEN [raised |-> TRUE, out |-> <<>>]
     ELSE [raised |-> FALSE, out |-> FilteredViews(kept, su, a)]

\* AgentQueryService(username).games(**a) on the committed rows: the list
\* returned, or raised = TRUE when the call ends in an exception
games(rows, uname, a) ==
  LET su == self_username(uname)
      kept == KeptRows(QueryRows(rows, su, a), su, a)
  IN IF Raises(kept) THEN [raised |-> TRUE, out |-> <<>>]
     ELSE [raised |-> FALSE,
           out |-> PySlice(FilteredViews(kept, su, a), a.offset, a.limit)]

\* the parameters of games (lines 68-78) and their default values
GamesParams ==
  {"opening_like", "eco_prefix", "family", "color", "result", "limit", "offset", "order_dir"}

GamesDefaults ==
  [ opening_like |-> None, eco_prefix |-> None, family |-> None,
    color |-> NoneLit, result |-> NoneLit,
    limit |-> 50, offset |-> 0, order_dir |-> "desc" ]

\* the outcome of a call: the list returned, or the exception that ends it
Returned(out) == [raised |-> FALSE, error |-> NoneLit, out |-> out]
Raised(error) == [raised |-> TRUE, error |-> error, out |-> <<>>]

\* self.games(**kw): Python binds the keyword arguments to the parameters,
\* raising TypeError for a keyword that names no parameter, and the
\* parameters not named take their defaults
Bind(kw) ==
  [name \in GamesParams |-> IF name \in DOMAIN kw THEN kw[name] ELSE GamesDefaults[name]]

games_call(rows, uname, kw) ==
  IF ~(DOMAIN kw \subseteq GamesParams) THEN Raised("TypeError")
  ELSE LET r == games(rows, uname, Bind(kw))
       IN IF r.raised THEN Raised("ValueError") ELSE Returned(r.out)

\* self.games(<explicit keywords>, **kwargs): a keyword given twice is a
\* TypeError
games_call_kwargs(rows, uname, explicit, kwargs) ==
  IF DOMAIN explicit \cap DOMAIN kwargs # {} THEN Raised("TypeError")
  ELSE games_call(rows, uname, explicit @@ kwargs)

\* the keywords the wrappers of lines 125-159 pass on from their own
\* parameters a, with the result filter res
WrapperKeywords(a, res) ==
  [ opening_like |-> a.opening_like, eco_prefix |-> a.eco_prefix,
    family |-> a.family, color |-> a.color, result |-> res ]

\* wins with the result filter of losses
wins_as_losses(rows, uname, a, kwargs) ==
  games_call_kwargs(rows, uname, WrapperKeywords(a, "loss"), kwargs)

\* lines 146-159
wins(rows, uname, a, kwargs) ==
  games_call_kwargs(rows, uname, WrapperKeywords(a, "win"), kwargs)

losses(rows, uname, a, kwargs) ==
  games_call_kwargs(rows, uname, WrapperKeywords(a, "loss"), kwargs)

draws(rows, uname, a, kwargs) ==
  games_call_kwargs(rows, uname, WrapperKeywords(a, "draw"), kwargs)

\* lines 125-144; won is "True", "False" or NoneLit
games_by_opening(rows, uname, a, won, kwargs) ==
  LET res == IF won = "True" THEN "win"
             ELSE IF won = "False" THEN "loss" ELSE NoneLit
  IN games_call_kwargs(rows, uname, WrapperKeywords(a, res), kwargs)

\* app/main.py, agent_games (lines 182-207): the query parameters q, the
\* order field order_by among them, are all passed to games as keywords
agent_games(rows, uname, q) ==
  games_call(rows, uname,
    [ opening_like |-> q.opening_like, eco_prefix |-> q.eco_prefix,
      family |-> q.family, color |-> q.color, result |-> q.result,
      limit |-> q.limit, offset |-> q.offset,
      order_by |-> q.order_by, order_dir |-> q.order_dir ])

-----------------------------------------------------------------------------
(* scripts/analyze.py: GameAnalyzer over the same table *)

\* _to_view (lines 56-69); year and month are left out, and so is opening,
\* which is read from the headers of the game text
to_view(row) ==
  [ id |-> row.id, white |-> row.white, black |-> row.black,
    result |-> row.result, eco |-> row.eco ]

\* the predicates of lines 121-140
is_win(uname, r) ==
  IF ~TruthyLit(r.result) THEN FALSE
  ELSE IF Lower(OrEmpty(r.white)) = uname THEN r.result = "1-0"
  ELSE IF Lower(OrEmpty(r.black)) = uname THEN r.result = "0-1"
  ELSE FALSE

is_loss(uname, r) ==
  IF ~TruthyLit(r.result) THEN FALSE
  ELSE IF Lower(OrEmpty(r.white)) = uname THEN r.result = "0-1"
  ELSE IF Lower(OrEmpty(r.black)) = uname THEN r.result = "1-0"
  ELSE FALSE

is_draw(uname, r) == r.result = "1/2-1/2"

\* rows[offset : offset + limit * 10] of the table, as the OFFSET and LIMIT
\* of line 146 select them
Window(rows, offset, limit) == PySlice(rows, offset, limit * 10)

\* games_by_result (lines 112-148) for an outcome among win, loss and draw
games_by_result(rows, user, outcome, limit, offset) ==
  LET uname == Lower(user)
      predicate(r) == IF Lower(outcome) = <<"w","i","n">> THEN is_win(uname, r)
                      ELSE IF Lower(outcome) = <<"l","o","s","s">> THEN is_loss(uname, r)
                      ELSE is_draw(uname, r)
      filtered == SelectSeq(Window(rows, offset, limit), predicate)
      page == PySlice(filtered, 0, limit)
  IN [i \in DOMAIN page |-> to_view(page[i])]

-----------------------------------------------------------------------------
(* repositories/sql_model_game_repository.py and app/main.py: the ingest path *)

\* hashlib.sha1 of the text: distinct texts have distinct digests
pgn_hash(pgn) == <<"sha1", pgn>>

\* the Game that fetch_games_in_month builds from one upstream record
\* (main.py lines 110-129): the opening name is the family of the ECO code
Game(pgn, white, black, result, ecoCode) ==
  [ pgn |-> pgn, white |-> white, black |-> black, result |-> result,
    eco |-> ecoCode, opening_name |-> family_from_eco_or_name(ecoCode, None) ]

\* getattr(g, "pgn", "") or ""
PgnText(game) == IF TruthyLit(game.pgn) THEN game.pgn ELSE ""

\* the GameRow of lines 72-85; the primary key is assigned on flush, one
\* more than the largest id of the table; year, month, time_control, eco_url
\* and end_time_utc, which no query reads, are left out
GameRow(game, id) ==
  [ id |-> id,
    pgn_sha1 |-> pgn_hash(PgnText(game)),
    pgn |-> PgnText(game),
    white |-> game.white,
    black |-> game.black,
    result |-> game.result,
    eco |-> game.eco,
    opening |-> game.opening_name ]

\* line 68: the session autoflushes before the SELECT, so the rows added
\* earlier in the same call are seen along with the committed ones
Exists(rows, digest) == \E i \in DOMAIN rows : rows[i].pgn_sha1 = digest

\* the loop of lines 64-88 from the k-th game on; st holds the session's rows
\* and the two counters
RECURSIVE UpsertLoop(_, _, _)
UpsertLoop(batch, k, st) ==
  IF k > Len(batch) THEN st
  ELSE LET digest == pgn_hash(PgnText(batch[k]))
       IN IF Exists(st.rows, digest)
            THEN UpsertLoop(batch, k + 1, [st EXCEPT !.skipped = @ + 1])
            ELSE UpsertLoop(batch, k + 1,
                   [st EXCEPT !.rows = Append(@, GameRow(batch[k], Len(@) + 1)),
                              !.inserted = @ + 1])

\* upsert_games on a session that does not flush before the SELECT of
\* line 68: only the rows committed before the call are seen
RECURSIVE UpsertLoopNoFlush(_, _, _, _)
UpsertLoopNoFlush(committed, batch, k, st) ==
  IF k > Len(batch) THEN st
  ELSE LET digest == pgn_hash(PgnText(batch[k]))
       IN IF Exists(committed, digest)
            THEN UpsertLoopNoFlush(committed, batch, k + 1, [st EXCEPT !.skipped = @ + 1])
            ELSE UpsertLoopNoFlush(committed, batch, k + 1,
                   [st EXCEPT !.rows = Append(@, GameRow(batch[k], Len(@) + 1)),
                              !.inserted = @ + 1])

upsert_games_no_autoflush(rows, batch) ==
  UpsertLoopNoFlush(rows, batch, 1, [rows |-> rows, inserted |-> 0, skipped |-> 0])

\* upsert_games on a table it empties first
upsert_games_truncate(rows, batch) ==
  UpsertLoop(batch, 1, [rows |-> <<>>, inserted |-> 0, skipped |-> 0])

\* upsert_games run to its commit by one caller at a time
upsert_games(rows, batch) ==
  UpsertLoop(batch, 1, [rows |-> rows, inserted |-> 0, skipped |-> 0])

\* a table without a unique index refuses no INSERT
no_unique_index(rows, digest) == FALSE

\* GameRow.pgn_sha1 is declared unique (line 32): the table's unique index
\* refuses an INSERT whose digest some row of the table already has
UniqueViolation(rows, digest) == Exists(rows, digest)

\* the flush of a session: the rows added since the last flush are INSERTed
\* in turn into the table as the session's transaction sees it; an INSERT
\* the unique index refuses raises IntegrityError
RECURSIVE Insert(_, _)
Insert(rows, pending) ==
  IF pending = <<>> THEN [raised |-> NoneLit, rows |-> rows]
  ELSE LET row == GameRow(Head(pending), Len(rows) + 1)
       IN IF UniqueViolation(rows, row.pgn_sha1)
            THEN [raised |-> "IntegrityError", rows |-> rows]
            ELSE Insert(Append(rows, row), Tail(pending))

-----------------------------------------------------------------------------
(* The classifier called on one (eco, opening) pair *)

MaxEcoLen == 4

EcoLetters == {"A", "B", "C", "D", "E", "b", "F", "7"}

EcoDigits == {"0", "1", "2", "3", "4", "5", "6", "7", "8", "9", "x", "sup2", "ar3"}

\* every three-character string over the letters and digits above, the
\* strings of another length over a small alphabet, and None
EcoInputs ==
  {None}
    \cup {<<l, d1, d2>> : l \in EcoLetters, d1 \in EcoDigits, d2 \in EcoDigits}
    \cup {s \in UNION {[1..n -> {"B", "9"}] : n \in 0..MaxEcoLen} : Len(s) # 3}

OpeningInputs ==
  { None, <<>>,
    <<"S","i","c","i","l","i","a","n">>,
    <<"F","R","E","N","C","H"," ","D","e","f","e","n","s","e">>,
    <<"C","a","r","o"," ","K","a","n","n">>,
    <<"Q","u","e","e","n","'","s"," ","G","a","m","b","i","t"," ","D","e","c","l","i","n","e","d">>,
    <<"S","e","m","i","-","S","l","a","v">>,
    <<"M","o","d","e","r","n"," ","B","e","n","o","n","i">>,
    <<"K","i","n","g","s"," ","I","n","d","i","a","n"," ","A","t","t","a","c","k">>,
    <<"G","r","U_uml","n","f","e","l","d">>,
    <<"n","o","n","s","e","n","s","e">>
  }

ClassifyInit ==
  /\ eco \in EcoInputs
  /\ opening \in OpeningInputs
  /\ fam = None
  /\ cpc = "call"

\* no classifier call is under way
ClassifyIdle ==
  /\ eco = None
  /\ opening = None
  /\ fam = None
  /\ cpc = "idle"

Classify ==
  /\ cpc = "call"
  /\ fam' = family_from_eco_or_name(eco, opening)
  /\ cpc' = "done"
  /\ UNCHANGED <<eco, opening, pvars, svars, rvars>>

-----------------------------------------------------------------------------
(* The resolver called on one (username, game) pair *)

UsernameInputs ==
  { <<>>, <<"a","n","n">>, <<"A","n","n">>, <<"B","O","B">>, <<"c","a","r","o","l">> }

PlayerNames ==
  { None, <<>>, <<"A","n","n">>, <<"a","n","n">>, <<"B","o","b">>,
    <<"A","n","n","a","b","e","l","l","e">> }

\* GameRow.result: the three outcome codes, an unrecognized code, "" and None
ResultCodes == {"1-0", "0-1", "1/2-1/2", "*", "", NoneLit}

PovInit ==
  /\ username \in UsernameInputs
  /\ g \in [white : PlayerNames, black : PlayerNames, result : ResultCodes]
  /\ povr = NoneLit
  /\ colr = NoneLit
  /\ povW = NoneLit
  /\ povB = NoneLit
  /\ ppc = "call"

\* no resolver call is under way
PovIdle ==
  /\ username = <<>>
  /\ g = [white |-> None, black |-> None, result |-> NoneLit]
  /\ povr = NoneLit
  /\ colr = NoneLit
  /\ povW = NoneLit
  /\ povB = NoneLit
  /\ ppc = "idle"

\* svc = AgentQueryService(username); svc._pov(g), svc._my_color(g)
Resolve ==
  /\ ppc = "call"
  /\ povr' = pov(self_username(username), g)
  /\ colr' = my_color(self_username(username), g)
  /\ ppc' = "done"
  /\ UNCHANGED <<username, g, povW, povB, cvars, svars, rvars>>

\* the same game resolved for each of its two players, by name:
\* AgentQueryService(g.white)._pov(g) and AgentQueryService(g.black)._pov(g)
ResolvePlayers ==
  /\ ppc = "done"
  /\ g.white # None
  /\ g.black # None
  /\ povW' = pov(self_username(g.white), g)
  /\ povB' = pov(self_username(g.black), g)
  /\ ppc' = "players"
  /\ UNCHANGED <<username, g, povr, colr, cvars, svars, rvars>>

-----------------------------------------------------------------------------
(* The store: ingest calls and queries, one at a time *)

MaxRows == 2

MaxBatch == 2

MaxLimit == 2

MaxOffset == 2

Ann == <<"A","n","n">>
Bob == <<"B","o","b">>
Annabelle == <<"A","n","n","a","b","e","l","l","e">>

\* games as fetch_games_in_month delivers them; a player whose upstream
\* record has no username is stored as None
FetchedGames ==
  { Game("pgn1", Ann, Bob, "1-0", <<"B","9","0">>),
    Game("pgn2", Bob, Ann, "1-0", <<"C","6","0">>),
    Game("pgn3", Annabelle, None, "1/2-1/2", None) }

Batches == UNION {[1..n -> FetchedGames] : n \in 1..MaxBatch}

QueryUsernames == { <<>>, <<"A","N","N">> }

\* the keyword arguments of games
QueryArgs ==
  [ opening_like : {None, <<"s","i","c","i","l">>},
    eco_prefix : {None, <<"c">>},
    family : {None, <<"s","i","c","i","l","i","a","n"," ","d","e","f","e","n","s","e">>,
              <<"n","o","p","e">>},
    color : {NoneLit, "white", "black"},
    result : {NoneLit, "win", "loss", "draw"},
    limit : 0..MaxLimit,
    offset : 0..MaxOffset,
    order_dir : {"asc", "desc"} ]

\* the calls that run in parallel and their sessions
Callers == {1, 2}

\* Python's None where a session is expected
NoSession == <<0, "None">>

\* the session objects a call can create: the one app/deps.py opens for the
\* request, the one of line 60 and the one of line 63
SessionIds == Callers \X {"deps", "line60", "line63"}

IdleCall ==
  [ pc |-> "idle", games |-> <<>>, k |-> 0, passed |-> NoSession,
    own_session |-> FALSE, session |-> NoSession, used |-> {},
    pending |-> <<>>, flushed |-> <<>>, inserted |-> 0, skipped |-> 0,
    raised |-> NoneLit ]

CallsIdle ==
  /\ calls = [p \in Callers |-> IdleCall]
  /\ sessions = [sid \in SessionIds |-> "none"]
  /\ lock = 0

StoreInit ==
  /\ store = <<>>
  /\ op = [kind |-> "none"]
  /\ CallsIdle

\* GameStoreFacade.ingest(batch): upsert_games up to its commit
Ingest(batch) ==
  LET st == upsert_games(store, batch)
  IN /\ Len(st.rows) <= MaxRows
     /\ store' = st.rows
     /\ op' = [kind |-> "ingest", games |-> batch,
               inserted |-> st.inserted, skipped |-> st.skipped]
     /\ UNCHANGED <<cvars, pvars, rvars>>

\* AgentQueryService(uname).games(**a)
Games(uname, a) ==
  LET r == games(store, uname, a)
  IN /\ op' = [kind |-> "games", username |-> uname, args |-> a,
               raised |-> r.raised, out |-> r.out]
     /\ UNCHANGED <<store, cvars, pvars, rvars>>

\* the operation has returned to its caller; the next request may start
Return ==
  /\ op.kind # "none"
  /\ op' = [kind |-> "none"]
  /\ UNCHANGED <<store, cvars, pvars, rvars>>

-----------------------------------------------------------------------------
(* The query service called with keyword arguments, and its wrappers *)

\* the filters a caller names
ServiceArgs ==
  [ opening_like : {None, <<"s","i","c","i","l">>},
    eco_prefix : {None},
    family : {None, <<>>, <<"n","o","p","e">>, <<"R","U","Y"," ","l","o","p","e","z">>},
    color : {NoneLit, "black"} ]

\* the pagination keywords, with and without order_dir
ServiceKwargs ==
  [limit : 1..MaxLimit, offset : {0, 1}, order_dir : {"asc", "desc"}]
    \cup [limit : {MaxLimit}, offset : {0}]

ResultFilters == {NoneLit, "win", "loss", "draw"}

\* the query parameters of GET /agent/games
AgentGamesQueries ==
  [ opening_like : {None}, eco_prefix : {None, <<"c">>},
    family : {None, <<"n","o","p","e">>},
    color : {NoneLit, "white"}, result : {NoneLit, "win"},
    limit : 1..MaxLimit, offset : {0, 1},
    order_by : {"id", "date"}, order_dir : {"asc", "desc"} ]

Outcomes == { <<"w","i","n">>, <<"l","o","s","s">>, <<"D","r","a","w">> }

\* svc.games(**kw)
ServiceGames(uname, kw) ==
  /\ op' = [kind |-> "games_call", username |-> uname, kw |-> kw,
            ret |-> games_call(store, uname, kw)]
  /\ UNCHANGED <<store, cvars, pvars, rvars>>

\* svc.wins(**a, **kwargs), svc.losses and svc.draws
Wins(uname, a, kwargs) ==
  /\ op' = [kind |-> "wins", username |-> uname, args |-> a, kwargs |-> kwargs,
            ret |-> wins(store, uname, a, kwargs)]
  /\ UNCHANGED <<store, cvars, pvars, rvars>>

Losses(uname, a, kwargs) ==
  /\ op' = [kind |-> "losses", username |-> uname, args |-> a, kwargs |-> kwargs,
            ret |-> losses(store, uname, a, kwargs)]
  /\ UNCHANGED <<store, cvars, pvars, rvars>>

Draws(uname, a, kwargs) ==
  /\ op' = [kind |-> "draws", username |-> uname, args |-> a, kwargs |-> kwargs,
            ret |-> draws(store, uname, a, kwargs)]
  /\ UNCHANGED <<store, cvars, pvars, rvars>>

\* svc.games_by_opening(**a, won=won, **kwargs)
GamesByOpening(uname, a, won, kwargs) ==
  /\ op' = [kind |-> "games_by_opening", username |-> uname, args |-> a,
            won |-> won, kwargs |-> kwargs,
            ret |-> games_by_opening(store, uname, a, won, kwargs)]
  /\ UNCHANGED <<store, cvars, pvars, rvars>>

\* GET /agent/games?username=uname&...
AgentGames(uname, q) ==
  /\ op' = [kind |-> "agent_games", username |-> uname, query |-> q,
            ret |-> agent_games(store, uname, q)]
  /\ UNCHANGED <<store, cvars, pvars, rvars>>

\* GameAnalyzer().games_by_result(uname, outcome, limit, offset)
GamesByResult(uname, outcome, limit, offset) ==
  /\ op' = [kind |-> "games_by_result", username |-> uname, outcome |-> outcome,
            limit |-> limit, offset |-> offset,
            out |-> games_by_result(store, uname, outcome, limit, offset)]
  /\ UNCHANGED <<store, cvars, pvars, rvars>>

-----------------------------------------------------------------------------
(* upsert_games step by step, called by two requests that run in parallel *)

\* the games the parallel requests carry
RaceBatches == {b \in Batches : \A i \in DOMAIN b : b[i].pgn # "pgn3"}

\* a request calls GameStoreFacade.ingest(batch, session): the endpoint of
\* main.py passes the session of app/deps.py, another caller may pass none
Request(p, batch, with_session) ==
  /\ calls[p].pc = "idle"
  /\ calls' = [calls EXCEPT ![p] =
                 [IdleCall EXCEPT !.pc = "called", !.games = batch,
                    !.passed = IF with_session THEN <<p, "deps">> ELSE NoSession]]
  /\ sessions' = IF with_session
                   THEN [sessions EXCEPT ![<<p, "deps">>] = "open"]
                   ELSE sessions
  /\ UNCHANGED <<lock, store, op, cvars, pvars>>

\* lines 58-63: the session of line 60 is created when none was passed; the
\* with statement of line 63 creates one more and binds the name session to it
Enter(p) ==
  LET c == calls[p]
      own == c.passed = NoSession
  IN /\ c.pc = "called"
     /\ calls' = [calls EXCEPT ![p] =
                    [c EXCEPT !.pc = "loop", !.k = 1, !.own_session = own,
                              !.session = <<p, "line63">>]]
     /\ sessions' = [sid \in SessionIds |->
                       IF sid = <<p, "line63">> \/ (own /\ sid = <<p, "line60">>)
                         THEN "open" ELSE sessions[sid]]
     /\ UNCHANGED <<lock, store, op, cvars, pvars>>

\* what the flush of call c does: the table after it and the error it raises
Flush(c) == Insert(store \o c.flushed, c.pending)

\* an exception leaves the with block of line 63: the session is closed, its
\* transaction rolled back, and the exception reaches the caller
Raise(p, error) ==
  /\ calls' = [calls EXCEPT ![p] =
                 [@ EXCEPT !.pc = "raised", !.raised = error,
                           !.pending = <<>>, !.flushed = <<>>]]
  /\ sessions' = [sessions EXCEPT ![calls[p].session] = "closed"]
  /\ lock' = IF lock = p THEN 0 ELSE lock
  /\ UNCHANGED store

\* lines 64-88 for the k-th game: the session autoflushes, which takes the
\* write lock when a row is pending; then the SELECT of line 68 and either
\* skipped += 1 or session.add(row) and inserted += 1
Select(p) ==
  LET c == calls[p]
      f == Flush(c)
      digest == pgn_hash(PgnText(c.games[c.k]))
      exists == Exists(f.rows, digest)
  IN /\ c.pc = "loop"
     /\ c.pending # <<>> => lock \in {0, p}
     /\ IF f.raised # NoneLit THEN Raise(p, f.raised)
        ELSE /\ calls' = [calls EXCEPT ![p] =
                  [c EXCEPT !.k = @ + 1,
                            !.pc = IF c.k = Len(c.games) THEN "commit" ELSE "loop",
                            !.used = @ \cup {c.session},
                            !.flushed = SubSeq(f.rows, Len(store) + 1, Len(f.rows)),
                            !.pending = IF exists THEN <<>> ELSE <<c.games[c.k]>>,
                            !.skipped = IF exists THEN @ + 1 ELSE @,
                            !.inserted = IF exists THEN @ ELSE @ + 1]]
             /\ lock' = IF c.pending # <<>> THEN p ELSE lock
             /\ UNCHANGED <<sessions, store>>
     /\ UNCHANGED <<op, cvars, pvars>>

\* lines 90-95: session.commit() flushes the last row and commits; the
\* session is closed, by line 92 or by the end of the with block
Commit(p) ==
  LET c == calls[p]
      f == Flush(c)
  IN /\ c.pc = "commit"
     /\ c.pending # <<>> => lock \in {0, p}
     /\ IF f.raised # NoneLit THEN Raise(p, f.raised)
        ELSE /\ calls' = [calls EXCEPT ![p] =
                  [c EXCEPT !.pc = "returned", !.used = @ \cup {c.session},
                            !.pending = <<>>, !.flushed = <<>>]]
             /\ store' = f.rows
             /\ sessions' = [sessions EXCEPT ![c.session] = "closed"]
             /\ lock' = IF lock = p THEN 0 ELSE lock
     /\ UNCHANGED <<op, cvars, pvars>>

\* the flush waits for the write lock another call holds; when the driver's
\* busy timeout runs out it raises OperationalError (database is locked)
Locked(p) ==
  /\ calls[p].pc \in {"loop", "commit"}
  /\ calls[p].pending # <<>>
  /\ lock \notin {0, p}
  /\ Raise(p, "OperationalError")
  /\ UNCHANGED <<op, cvars, pvars>>

\* the request ends: ingest_month_endpoint answers with the counts, or with
\* status 502 when the call raised; app/deps.py closes the request's session
Respond(p) ==
  /\ calls[p].pc \in {"returned", "raised"}
  /\ calls' = [calls EXCEPT ![p] = IdleCall]
  /\ sessions' = [sid \in SessionIds |-> IF sid[1] = p THEN "none" ELSE sessions[sid]]
  /\ UNCHANGED <<lock, store, op, cvars, pvars>>

-----------------------------------------------------------------------------
(* One game from the upstream record to the view: the family computed when
   the game is fetched and the family computed again when the row is read *)

\* an upstream record's ECO header is about to be read
FetchInit ==
  /\ eco \in EcoInputs
  /\ opening = None
  /\ fam = None
  /\ cpc = "fetch"

\* the game fetch_games_in_month builds from a record with ECO header eco
FetchedGame == Game("pgn1", Ann, Bob, "1-0", eco)

\* fetch_games_in_month (main.py line 126) computes the opening name, and
\* upsert_games stores it as GameRow.opening (line 83); the ValueError of the
\* classifier ends the request before anything is stored
FetchGame ==
  /\ cpc = "fetch"
  /\ IF FetchedGame.opening_name = ValueError
       THEN /\ cpc' = "raised"
            /\ opening' = opening
       ELSE /\ cpc' = "stored"
            /\ opening' = GameRow(FetchedGame, 1).opening
  /\ UNCHANGED <<eco, fam, pvars, svars, rvars>>

\* _row_to_dict computes the family again from the stored eco and opening
ReadFamily ==
  /\ cpc = "stored"
  /\ fam' = row_to_dict(self_username(Ann),
                        [GameRow(FetchedGame, 1) EXCEPT !.opening = opening]).family
  /\ cpc' = "read"
  /\ UNCHANGED <<eco, opening, pvars, svars, rvars>>

-----------------------------------------------------------------------------
(* Specifications *)

InitClassify == ClassifyInit /\ PovIdle /\ StoreInit

SpecClassify == InitClassify /\ [][Classify]_vars

InitPov == PovInit /\ ClassifyIdle /\ StoreInit

SpecPov == InitPov /\ [][Resolve \/ ResolvePlayers]_vars

Init == StoreInit /\ ClassifyIdle /\ PovIdle

\* a request starts only when the one before it has returned
IngestRequest == op.kind = "none" /\ \E batch \in Batches : Ingest(batch)

GamesRequest ==
  op.kind = "none" /\ \E uname \in QueryUsernames, a \in QueryArgs : Games(uname, a)

Next == IngestRequest \/ GamesRequest \/ Return

Spec == Init /\ [][Next]_vars

\* one record is fetched, stored and read
InitFetch == FetchInit /\ PovIdle /\ StoreInit

SpecFetch == InitFetch /\ [][FetchGame \/ ReadFamily]_vars

\* ingest calls and calls of the query service, of its wrappers, of the
\* /agent/games endpoint and of GameAnalyzer, one at a time
InitService == StoreInit /\ ClassifyIdle /\ PovIdle

ServiceGamesRequest ==
  op.kind = "none" /\
    \E uname \in QueryUsernames, a \in ServiceArgs, res \in ResultFilters, kwargs \in ServiceKwargs :
      ServiceGames(uname, WrapperKeywords(a, res) @@ kwargs)

WinsRequest ==
  op.kind = "none" /\
    \E uname \in QueryUsernames, a \in ServiceArgs, kwargs \in ServiceKwargs :
      Wins(uname, a, kwargs)

LossesRequest ==
  op.kind = "none" /\
    \E uname \in QueryUsernames, a \in ServiceArgs, kwargs \in ServiceKwargs :
      Losses(uname, a, kwargs)

DrawsRequest ==
  op.kind = "none" /\
    \E uname \in QueryUsernames, a \in ServiceArgs, kwargs \in ServiceKwargs :
      Draws(uname, a, kwargs)

GamesByOpeningRequest ==
  op.kind = "none" /\
    \E uname \in QueryUsernames, a \in ServiceArgs, won \in {NoneLit, "True", "False"},
       kwargs \in ServiceKwargs :
      GamesByOpening(uname, a, won, kwargs)

AgentGamesRequest ==
  op.kind = "none" /\
    \E uname \in QueryUsernames, q \in AgentGamesQueries : AgentGames(uname, q)

GamesByResultRequest ==
  op.kind = "none" /\
    \E uname \in QueryUsernames, outcome \in Outcomes, limit \in 1..MaxLimit,
       offset \in 0..MaxOffset :
      GamesByResult(uname, outcome, limit, offset)

NextService ==
  \/ IngestRequest
  \/ ServiceGamesRequest
  \/ WinsRequest
  \/ LossesRequest
  \/ DrawsRequest
  \/ GamesByOpeningRequest
  \/ AgentGamesRequest
  \/ GamesByResultRequest
  \/ Return

SpecService == InitService /\ [][NextService]_vars

\* two requests ingest in parallel, their steps interleaved
InitParallel == StoreInit /\ ClassifyIdle /\ PovIdle

NextParallel ==
  \E p \in Callers :
    \/ \E batch \in RaceBatches, with_session \in BOOLEAN : Request(p, batch, with_session)
    \/ Enter(p)
    \/ Select(p)
    \/ Commit(p)
    \/ Locked(p)
    \/ Respond(p)

SpecParallel == InitParallel /\ [][NextParallel]_vars

-----------------------------------------------------------------------------
(* Claims about the classifier *)

\* a well-formed ECO code: a letter A-E (either case) and two digits 0-9
WellFormedEco(e) ==
  /\ e # None
  /\ Len(e) = 3
  /\ e[1] \in {"A", "B", "C", "D", "E", "a", "b", "c", "d", "e"}
  /\ \A k \in {2, 3} : \E i \in DOMAIN AsciiDigits : AsciiDigits[i] = e[k]

\* letterIndex(A=1..E=5) * 1000 + twoDigitValue
EcoKey(e) ==
  LET li == CHOOSE i \in DOMAIN ABCDE : ABCDE[i] = e[1] \/ LowerChar(ABCDE[i]) = e[1]
      dv(c) == (CHOOSE i \in DOMAIN AsciiDigits : AsciiDigits[i] = c) - 1
  IN li * 1000 + 10 * dv(e[2]) + dv(e[3])

\* C1: classify is total: for every (eco, openingName) pair, each absent or
\* any string, the call returns a label of the fixed family set and raises
\* nothing.
C1_ClassifyTotal == cpc = "done" => fam \in Families

\* C2: for every row (family, start, end) of the ECO range table and every
\* well-formed ECO code whose key lies in [start, end], classify returns that
\* row's family, whatever the opening name is.
C2_RangeTableInvariant ==
  (cpc = "done" /\ WellFormedEco(eco)) =>
    \A i \in DOMAIN ECO_RANGES :
      (EcoKey(ECO_RANGES[i].start) <= EcoKey(eco) /\ EcoKey(eco) <= EcoKey(ECO_RANGES[i].end))
        => fam = ECO_RANGES[i].fam

\* C3: a malformed ECO code (wrong length, letter outside A-E, or a non-digit
\* in position 2 or 3) is treated exactly like an absent one: the result is
\* the family of the first matching name rule, or "Other/Irregular".
C3_MalformedEcoAsAbsent ==
  (cpc = "done" /\ eco # None /\ ~WellFormedEco(eco)) =>
    /\ fam = family_from_eco_or_name(None, opening)
    /\ fam = NameFamily(opening)

-----------------------------------------------------------------------------
(* Claims about the perspective resolver *)

\* a stored player name equals the username, ignoring case; a missing name
\* equals no username
SameName(name, u) == name # None /\ Lower(name) = Lower(u)

\* the contract table of resolvePerspective
ContractPov(u, row) ==
  IF row.result = NoneLit THEN NoneLit
  ELSE IF ~SameName(row.white, u) /\ ~SameName(row.black, u) THEN NoneLit
  ELSE IF row.result = "1/2-1/2" THEN "draw"
  ELSE IF row.result = "1-0" THEN (IF SameName(row.white, u) THEN "win" ELSE "loss")
  ELSE IF row.result = "0-1" THEN (IF SameName(row.black, u) THEN "win" ELSE "loss")
  ELSE NoneLit

\* C4: resolvePerspective follows the contract table for every username and
\* game: undefined if the outcome is absent or the username equals neither
\* player name ignoring case; "draw" for a draw; for "white wins", "win" if
\* the user is white else "loss"; for "black wins", "win" if the user is black
\* else "loss"; undefined for any other outcome code.
C4_PovContract == ppc = "done" => povr = ContractPov(username, g)

\* C5: for every game whose white and black names differ ignoring case, with
\* a decisive outcome the winner's perspective is "win" and the other
\* player's is "loss", with a draw both are "draw", and the two players never
\* both get "win" or both get "loss".
C5_PovSwapSymmetric ==
  (ppc = "players" /\ Lower(g.white) # Lower(g.black)) =>
    /\ g.result = "1-0" => (povW = "win" /\ povB = "loss")
    /\ g.result = "0-1" => (povW = "loss" /\ povB = "win")
    /\ g.result = "1/2-1/2" => (povW = "draw" /\ povB = "draw")
    /\ ~(povW = "win" /\ povB = "win")
    /\ ~(povW = "loss" /\ povB = "loss")

C5_Witness ==
  /\ ppc = "players"
  /\ g.white = <<"A","n","n">>
  /\ g.black = <<"B","o","b">>
  /\ g.result = "0-1"
  /\ povW = "loss"
  /\ povB = "win"

\* C6: resolveColor returns "white" if game.white equals the username ignoring
\* case, "black" if game.black does, and undefined in every other case, for
\* every username (the empty string included); a game whose white (black)
\* name is missing never resolves to white (black).
C6_ColorContract ==
  ppc = "done" =>
    /\ colr = (IF SameName(g.white, username) THEN "white"
               ELSE IF SameName(g.black, username) THEN "black"
               ELSE NoneLit)
    /\ g.white = None => colr # "white"
    /\ g.black = None => colr # "black"

-----------------------------------------------------------------------------
(* Claims about the query engine and the ingest path *)

\* the arguments of the unpaginated call: no limit, offset 0
Unpaginated(a) == [a EXCEPT !.limit = Len(store), !.offset = 0]

\* the slice [O, O + L) of a sequence
Slice(seq, O, L) ==
  LET rest == IF Len(seq) > O THEN Len(seq) - O ELSE 0
      n == IF L < rest THEN L ELSE rest
  IN [i \in 1..n |-> seq[O + i]]

\* C7: for any stored set, username, filters and direction, and any limit L
\* and offset O, queryGames with (L, O) equals the slice [O, O + L) of the
\* unpaginated result; pagination comes after the storage-level and the
\* derived filters, and an offset past the end yields the empty sequence.
C7_PaginationLaw ==
  op.kind = "games" =>
    LET full == games(store, op.username, Unpaginated(op.args))
    IN /\ ~op.raised /\ ~full.raised
       /\ op.out = Slice(full.out, op.args.offset, op.args.limit)
       /\ op.args.offset >= Len(full.out) => op.out = <<>>

\* a page of one row taken after the colour filter dropped the row before it
C7_Witness ==
  /\ op.kind = "games"
  /\ op.args.color = "white"
  /\ op.args.order_dir = "asc"
  /\ op.args.limit = 1
  /\ op.args.offset = 0
  /\ Len(op.out) = 1
  /\ op.out[1].id = 2

\* the stored name contains the username, ignoring case
NameContains(name, u) == name # None /\ Contains(Lower(name), Lower(u))

\* the call returned the whole filtered list
IsUnpaginated(a) == a.offset = 0 /\ a.limit >= Len(store)

\* C8: a candidate game is in the unpaginated result iff, for each of the
\* colour, result and family filters that is given, its resolved colour,
\* perspective and family (ignoring case) equal the filter value; hence with a
\* colour or result filter every returned game has the username equal,
\* ignoring case, to one of its players; and each view carries the values
\* resolved for its game.
C8_DerivedFilterSemantics ==
  (op.kind = "games" /\ ~op.raised /\ IsUnpaginated(op.args)) =>
    LET a == op.args
        su == self_username(op.username)
        cand == QueryRows(store, su, a)
        Matches(row) ==
          /\ a.color # NoneLit => my_color(su, row) = a.color
          /\ a.result # NoneLit => pov(su, row) = a.result
          /\ a.family # None =>
               Lower(family_from_eco_or_name(row.eco, row.opening)) = Lower(a.family)
    IN /\ \A i \in DOMAIN cand :
            (\E k \in DOMAIN op.out : op.out[k].id = cand[i].id) <=> Matches(cand[i])
       /\ (a.color # NoneLit \/ a.result # NoneLit) =>
            \A k \in DOMAIN op.out :
              SameName(op.out[k].white, op.username) \/ SameName(op.out[k].black, op.username)
       /\ \A k \in DOMAIN op.out :
            \E i \in DOMAIN cand :
              /\ cand[i].id = op.out[k].id
              /\ op.out[k].my_color = my_color(su, cand[i])
              /\ op.out[k].pov_result = pov(su, cand[i])
              /\ op.out[k].family = family_from_eco_or_name(cand[i].eco, cand[i].opening)

\* C9: with no filter, queryGames returns every stored game whose white or
\* black name contains the username ignoring case, the games where the
\* username equals neither name included, and those games are returned with
\* colour and perspective undefined.
C9_SubstringCandidates ==
  ( /\ op.kind = "games"
    /\ ~op.raised
    /\ IsUnpaginated(op.args)
    /\ op.args.opening_like = None
    /\ op.args.eco_prefix = None
    /\ op.args.family = None
    /\ op.args.color = NoneLit
    /\ op.args.result = NoneLit ) =>
    /\ \A i \in DOMAIN store :
         (NameContains(store[i].white, op.username) \/ NameContains(store[i].black, op.username))
           => \E k \in DOMAIN op.out : op.out[k].id = store[i].id
    /\ \A k \in DOMAIN op.out :
         (~SameName(op.out[k].white, op.username) /\ ~SameName(op.out[k].black, op.username))
           => (op.out[k].my_color = NoneLit /\ op.out[k].pov_result = NoneLit)

\* the raw texts of the stored rows
StoredTexts(rows) == {rows[i].pgn : i \in DOMAIN rows}

\* C10: an ingest call stores one row for each raw text of its batch that is
\* not stored yet, however often the text occurs in the batch, and leaves the
\* rows stored before as they were; it reports the first occurrence of each
\* new text as inserted and every other game as skipped, so that a batch of
\* stored texts changes nothing, and inserted + skipped is the batch's length.
C10_IdempotentIngest ==
  [][ op'.kind = "ingest" =>
        LET batch == op'.games
            new == {batch[k].pgn : k \in DOMAIN batch} \ StoredTexts(store)
        IN /\ Len(store') = Len(store) + Cardinality(new)
           /\ SubSeq(store', 1, Len(store)) = store
           /\ StoredTexts(store') = StoredTexts(store) \cup new
           /\ op'.inserted = Cardinality(new)
           /\ op'.skipped = Len(batch) - Cardinality(new)
           /\ op'.inserted + op'.skipped = Len(batch)
           /\ new = {} => (store' = store /\ op'.skipped = Len(batch)) ]_vars

\* one call whose batch holds the same raw text twice
C10_Witness ==
  /\ op.kind = "ingest"
  /\ Len(op.games) = 2
  /\ op.games[1].pgn = op.games[2].pgn
  /\ op.inserted = 1
  /\ op.skipped = 1
  /\ Len(store) = 1

-----------------------------------------------------------------------------
(* Parallel ingest calls *)

\* C11: in every reachable state of the store, under every interleaving of
\* the steps of parallel ingest calls, no two stored rows have the same
\* content hash
C11_ContentHashUnique ==
  \A i, j \in DOMAIN store : store[i].pgn_sha1 = store[j].pgn_sha1 => i = j

\* two calls carried the same game and both passed the duplicate check: one
\* has committed its row, the other's INSERT was refused
C11_Witness ==
  \E p, q \in Callers :
    /\ p # q
    /\ calls[p].raised = "IntegrityError"
    /\ calls[q].pc = "returned" /\ calls[q].inserted > 0
    /\ \E k \in DOMAIN calls[p].games, i \in DOMAIN store :
         /\ store[i].pgn_sha1 = pgn_hash(PgnText(calls[p].games[k]))
         /\ \E m \in DOMAIN calls[q].games : calls[q].games[m] = calls[p].games[k]

\* the games of a batch are all stored
BatchStored(batch) ==
  \A k \in DOMAIN batch : Exists(store, pgn_hash(PgnText(batch[k])))

\* C12: the call that loses the race for a content hash treats the storage
\* uniqueness violation as skipped: it raises no error, it returns its
\* counts, one for every game of its batch, and the games of its batch are
\* stored
C12_LoserSkipsDuplicate ==
  \A p \in Callers :
    /\ calls[p].raised # "IntegrityError"
    /\ calls[p].pc = "returned" =>
         /\ calls[p].inserted + calls[p].skipped = Len(calls[p].games)
         /\ BatchStored(calls[p].games)

\* C13: when a session is passed to upsert_games, the duplicate checks, the
\* inserts and the commit are performed on that session and on no other,
\* and the call opens no session of its own
C13_CallerSessionUsed ==
  \A p \in Callers :
    (calls[p].passed # NoSession /\ calls[p].pc \in {"loop", "commit", "returned", "raised"}) =>
      /\ calls[p].used \subseteq {calls[p].passed}
      /\ sessions[<<p, "line60">>] = "none"
      /\ sessions[<<p, "line63">>] = "none"

\* C20: when upsert_games returns, every session it opened itself is closed,
\* and the session the caller passed is not closed
C20_SessionsClosedOnReturn ==
  \A p \in Callers :
    calls[p].pc = "returned" =>
      /\ sessions[<<p, "line60">>] # "open"
      /\ sessions[<<p, "line63">>] # "open"
      /\ calls[p].passed # NoSession => sessions[calls[p].passed] = "open"

-----------------------------------------------------------------------------
(* The store's lifecycle, the query service and GameAnalyzer *)

QueryKinds ==
  {"games_call", "wins", "losses", "draws", "games_by_opening", "agent_games",
   "games_by_result"}

\* C14: across every sequence of ingest and query operations, rows are
\* created only by ingest, a row once stored stays stored with every field
\* unchanged, and every query operation leaves the stored rows as they were
C14_StoreLifecycle ==
  [][ /\ Len(store') >= Len(store)
      /\ \A i \in DOMAIN store : store'[i] = store[i]
      /\ store' # store => op'.kind = "ingest"
      /\ op'.kind \in QueryKinds => store' = store ]_vars

\* an ingest has added a row to a table that had one, and a wrapper query
\* then ran on the two rows
C14_Witness ==
  /\ op.kind = "games_by_opening"
  /\ Len(store) >= 2
  /\ op.ret.out # <<>>

\* C15: for every username, filter set and pagination value, with the order
\* field id or date and the direction asc or desc, the query made by the
\* /agent/games operation returns a sequence of game views and raises no
\* error
C15_AgentGamesNeverRaises ==
  op.kind = "agent_games" => ~op.ret.raised

\* a string that is, ignoring case, none of the labels the classifier returns
UnknownFamily(f) == f # None /\ \A lab \in Families : Lower(lab) # Lower(f)

\* C16 as stated: an unknown family filter value, the empty string included,
\* makes games return the empty sequence and no error
C16_UnknownFamilyEmpty ==
  (op.kind = "games_call" /\ UnknownFamily(op.kw.family)) =>
    op.ret = Returned(<<>>)

\* C16 amended: a non-empty unknown family filter value makes games return
\* the empty sequence and no error; the empty string is no family filter
C16_NonEmptyUnknownFamilyEmpty ==
  (op.kind = "games_call" /\ UnknownFamily(op.kw.family) /\ op.kw.family # <<>>) =>
    op.ret = Returned(<<>>)

\* games was called with an unknown family, and without that filter the same
\* call returns rows
C16_Witness ==
  /\ op.kind = "games_call"
  /\ op.kw.family = <<"n","o","p","e">>
  /\ games_call(store, op.username, [op.kw EXCEPT !.family = None]).out # <<>>
  /\ op.ret = Returned(<<>>)

Ids(seq) == [i \in DOMAIN seq |-> seq[i].id]

RECURSIVE IsSubsequence(_, _)
IsSubsequence(s, t) ==
  IF s = <<>> THEN TRUE
  ELSE IF t = <<>> THEN FALSE
  ELSE IF Head(s) = Head(t) THEN IsSubsequence(Tail(s), Tail(t))
  ELSE IsSubsequence(s, Tail(t))

\* C17: games returns its rows ordered by id, strictly increasing when the
\* direction is asc and strictly decreasing when it is desc, no id twice,
\* and the result is a subsequence of the ordered candidate list
C17_OrderedById ==
  (op.kind = "games_call" /\ ~op.ret.raised) =>
    LET a == Bind(op.kw)
        ids == Ids(op.ret.out)
        candidates == Ids(QueryRows(store, self_username(op.username), a))
    IN /\ \A i, j \in DOMAIN ids :
            i < j => IF a.order_dir = "asc" THEN ids[i] < ids[j] ELSE ids[i] > ids[j]
       /\ IsSubsequence(ids, candidates)

\* games was called with the direction desc and returned two rows
C17_Witness ==
  /\ op.kind = "games_call"
  /\ Bind(op.kw).order_dir = "desc"
  /\ Len(op.ret.out) >= 2
  /\ op.ret.out[1].id > op.ret.out[2].id

\* the keywords of a call of games that names no result filter
NoResultKeywords(a) ==
  [ opening_like |-> a.opening_like, eco_prefix |-> a.eco_prefix,
    family |-> a.family, color |-> a.color ]

\* C18: wins, losses and draws are games with the result filter win, loss
\* and draw, and games_by_opening is wins when won is true, losses when won
\* is false and games with no result filter when won is absent
C18_WrappersAreResultFilters ==
  /\ op.kind = "wins" =>
       op.ret = games_call(store, op.username, WrapperKeywords(op.args, "win") @@ op.kwargs)
  /\ op.kind = "losses" =>
       op.ret = games_call(store, op.username, WrapperKeywords(op.args, "loss") @@ op.kwargs)
  /\ op.kind = "draws" =>
       op.ret = games_call(store, op.username, WrapperKeywords(op.args, "draw") @@ op.kwargs)
  /\ op.kind = "games_by_opening" =>
       op.ret = IF op.won = "True" THEN wins(store, op.username, op.args, op.kwargs)
                ELSE IF op.won = "False" THEN losses(store, op.username, op.args, op.kwargs)
                ELSE games_call(store, op.username, NoResultKeywords(op.args) @@ op.kwargs)

\* wins returned rows, and they are not the rows losses returns
C18_Witness ==
  /\ op.kind = "wins"
  /\ op.ret.out # <<>>
  /\ losses(store, op.username, op.args, op.kwargs).out # op.ret.out

\* C19: every game games_by_result returns has the username equal, ignoring
\* case, to its white or black player, and the stated outcome from that
\* player's side
C19_OnlyTheUsersGames ==
  op.kind = "games_by_result" =>
    \A i \in DOMAIN op.out :
      LET v == op.out[i]
          isWhite == v.white # None /\ Lower(v.white) = Lower(op.username)
          isBlack == v.black # None /\ Lower(v.black) = Lower(op.username)
          outcome == Lower(op.outcome)
      IN /\ isWhite \/ isBlack
         /\ outcome = <<"w","i","n">> =>
              (isWhite /\ v.result = "1-0") \/ (isBlack /\ v.result = "0-1")
         /\ outcome = <<"l","o","s","s">> =>
              (isWhite /\ v.result = "0-1") \/ (isBlack /\ v.result = "1-0")
         /\ outcome = <<"d","r","a","w">> => v.result = "1/2-1/2"

-----------------------------------------------------------------------------
(* Classification at ingest and on read *)

\* C21: for every ECO value the opening name stored for a fetched game is
\* the family classify(eco, absent), and the family computed again on read
\* from the eco and that stored name equals it:
\* classify(eco, classify(eco, absent)) = classify(eco, absent)
C21_ReadAgreesWithIngest ==
  LET stored == family_from_eco_or_name(eco, None)
  IN /\ cpc # "fetch" =>
          /\ stored \in Families
          /\ family_from_eco_or_name(eco, stored) = stored
     /\ cpc \in {"stored", "read"} => opening = stored
     /\ cpc = "read" => fam = opening

=============================================================================
